---- MODULE Spec2Model ----
(***************************************************************************)
(* ScrapCo backend: vendor acceptance callbacks and pickup creation, for   *)
(* the lifecycle of one pickup row.                                        *)
(*                                                                         *)
(* The HTTP handlers are translated from src/routes/vendor.js and          *)
(* src/unnamed/part_001 (routes/pickups.js).  The dispatcher service       *)
(* (services/dispatcher) and the signature verifier (vendor/security) are  *)
(* required by those files but are not among the sources; they are         *)
(* modelled from spec.md sections 4.1, 4.2 and 5.                          *)
(***************************************************************************)
EXTENDS Integers, Sequences, FiniteSets, TLC

\* ------------------------------------------------------------------ bounds
NumCandidates == 3       \* vendor backends on the ordered candidate list
MaxAcceptCount == 2      \* the count of successful accepts saturates here

\* ------------------------------------------------------------- value sets
NULL == "null"                     \* SQL NULL / JS null / undefined
ThePickup == "p1"                  \* id the store gives the pickup row
PickupIds == {NULL, ThePickup}

VendorNames == <<"A", "B", "C", "D", "E">>
Candidates == SubSeq(VendorNames, 1, NumCandidates)
Vendors == {Candidates[i] : i \in 1..Len(Candidates)}

SharedSecret == "s1"
FreshnessWindowMin == 5
NoTimestamp == -1                  \* timestamp header absent or unparsable

NoRow == [status |-> "NONE", assigned_vendor_ref |-> NULL,
          assignment_expires_at |-> NULL, items |-> FALSE]

VARIABLES
  pickup,           \* the pickups row ("NONE" = not inserted yet)
  cursor,           \* dispatcher: how many candidates were already offered
  queue,            \* detached dispatchPickup run not yet executed
  dispatchPromise,  \* fate of the promise returned to the creation route
  createDispatches, \* times a creation route invoked dispatchPickup
  createCode,       \* HTTP status the creation route answered
  acceptOk,         \* accept calls answered success:true
  rejectedBy,       \* vendors whose declined offer was cleared
  expiredFor,       \* vendors whose offer was cleared by expiry
  resp              \* the HTTP call handled by the last step, if any

vars == <<pickup, cursor, queue, dispatchPromise, createDispatches,
          createCode, acceptOk, rejectedBy, expiredFor, resp>>

\* ----------------------------------------------------- signature verifier
\* HMAC over timestamp + "." + rawBody with the shared secret, abstracted to
\* the secret the claimed signature was computed with ("none" when the
\* header is absent) and the claimed timestamp's age in minutes.
verifyVendorSignature(req) ==
  /\ req.sig # "none"
  /\ req.ts # NoTimestamp
  /\ req.ts <= FreshnessWindowMin
  /\ req.sig = SharedSecret

\* ------------------------------------------------------- request alphabet
SigHeaders ==
  { <<"none", 0>>, <<"s1", NoTimestamp>>, <<"s1", 10>>, <<"s2", 0>>,
    <<"s1", 0>>, <<"s1", FreshnessWindowMin>> }

AcceptRequests ==
  { [sig |-> h[1], ts |-> h[2], pickupId |-> pid, assignedVendorRef |-> v,
     assignmentExpiresAt |-> e] :
      h \in SigHeaders, pid \in PickupIds, v \in Vendors \cup {NULL},
      e \in {NULL, "T"} }

StoreOutcomes == {"ok", "error", "throw"}

NoResp ==
  [route |-> "none", code |-> 0, success |-> FALSE, sigOk |-> FALSE,
   pickupId |-> NULL, vendorRef |-> NULL, store |-> "none",
   pre |-> NoRow, storeOps |-> 0, engineOps |-> 0, malformed |-> FALSE]

Init ==
  /\ pickup = NoRow
  /\ cursor = 0
  /\ queue = "none"
  /\ dispatchPromise = "none"
  /\ createDispatches = 0
  /\ createCode = 0
  /\ acceptOk = 0
  /\ rejectedBy = {}
  /\ expiredFor = {}
  /\ resp = NoResp

\* The record of one handled call: the request, the pickups row as it was
\* before the call, and the answer.
MkResp(route, code, sigOk, pid, vref, store, pre, sOps, eOps) ==
  [route |-> route, code |-> code, success |-> (code = 200 \/ code = 201),
   sigOk |-> sigOk, pickupId |-> pid, vendorRef |-> vref, store |-> store,
   pre |-> pre, storeOps |-> sOps, engineOps |-> eOps,
   malformed |-> (pid = NULL /\ route \in {"vendor/accept", "pickups/accepted"})]

RowOf(pid) == IF pid = ThePickup THEN pickup ELSE NoRow

Saturate(n) == IF n < MaxAcceptCount THEN n + 1 ELSE n

\* ------------------------------------------------- POST /api/vendor/accept
VendorAcceptGateBodyFirst(req) ==
  IF req.pickupId = NULL THEN 400
  ELSE IF ~verifyVendorSignature(req) THEN 401
  ELSE 0

\* Which early return, if any, answers the call (0: none).
VendorAcceptGate(req) ==
  IF ~verifyVendorSignature(req) THEN 401
  ELSE IF req.pickupId = NULL THEN 400
  ELSE 0

AcceptMatchesNoStatusFilter(row) == row.status # "NONE"

AcceptMatchesWhileOffered(row) == row.status \in {"REQUESTED", "OFFERED"}

AcceptMatchesUnlessAccepted(row) == row.status \notin {"NONE", "ACCEPTED"}

\* The filter of the conditional update besides .eq('id', pickupId).
AcceptMatches(row) == row.status = "REQUESTED"

\* The row after the update object built from the body is applied
\* (assignedVendorRef || null, assignmentExpiresAt || null).
AcceptUpdate(row, req) ==
  [row EXCEPT !.status = "ACCEPTED",
              !.assigned_vendor_ref = req.assignedVendorRef,
              !.assignment_expires_at = req.assignmentExpiresAt]

\* The answer to a store outcome: { error } returned, a throw, or the row.
AcceptStoreCode(store, matched) ==
  IF store = "throw" THEN 500
  ELSE IF store = "error" THEN 400
  ELSE IF ~matched THEN 409
  ELSE 200

VendorAcceptHandler(req, store) ==
  LET gate == VendorAcceptGate(req)
      pid == req.pickupId
      row == RowOf(pid)
      sig == verifyVendorSignature(req)
      matched == pid = ThePickup /\ AcceptMatches(row)
  IN
  /\ UNCHANGED <<cursor, queue, dispatchPromise, createDispatches,
                 createCode, rejectedBy, expiredFor>>
  /\ IF gate # 0
       THEN /\ resp' = MkResp("vendor/accept", gate, sig, pid,
                              req.assignedVendorRef, "none", pickup, 0, 0)
            /\ UNCHANGED <<pickup, acceptOk>>
       ELSE /\ resp' = MkResp("vendor/accept", AcceptStoreCode(store, matched),
                              sig, pid, req.assignedVendorRef, store, pickup, 1, 0)
            /\ IF store = "ok" /\ matched
                 THEN /\ pickup' = AcceptUpdate(row, req)
                      /\ acceptOk' = Saturate(acceptOk)
                 ELSE UNCHANGED <<pickup, acceptOk>>

\* Calls that differ in what the handler reads: the store is not reached
\* and the expiry field is not read when an early return answers.
VendorAcceptCalls ==
  { c \in [req : AcceptRequests, store : StoreOutcomes] :
      VendorAcceptGate(c.req) # 0 =>
        (c.store = "ok" /\ c.req.assignmentExpiresAt = NULL) }

VendorAccept ==
  \E c \in VendorAcceptCalls : VendorAcceptHandler(c.req, c.store)

\* ---------------------------------------------- POST /api/pickups/accepted
PickupsAcceptedGate(req) ==
  IF ~verifyVendorSignature(req) THEN 401
  ELSE IF req.pickupId = NULL THEN 400
  ELSE 0

\* dispatcher.confirmVendorAcceptance: the condition of its single
\* conditional update (the vendor-identity-matching variant).
ConfirmMatches(row, vendorRef) ==
  /\ row.status = "OFFERED"
  /\ row.assigned_vendor_ref = vendorRef

\* The updated row, or NoRow as the "no match" sentinel.
confirmVendorAcceptance(row, vendorRef) ==
  IF ConfirmMatches(row, vendorRef)
    THEN [row EXCEPT !.status = "ACCEPTED"]
    ELSE NoRow

\* The answer to the dispatcher's result: a throw, null, or the row.
AcceptedResultCode(store, result) ==
  IF store # "ok" THEN 500
  ELSE IF result = NoRow THEN 409
  ELSE 200

PickupsAcceptedHandler(req, store) ==
  LET gate == PickupsAcceptedGate(req)
      pid == req.pickupId
      row == RowOf(pid)
      sig == verifyVendorSignature(req)
      result == confirmVendorAcceptance(row, req.assignedVendorRef)
  IN
  /\ UNCHANGED <<cursor, queue, dispatchPromise, createDispatches,
                 createCode, rejectedBy, expiredFor>>
  /\ IF gate # 0
       THEN /\ resp' = MkResp("pickups/accepted", gate, sig, pid,
                              req.assignedVendorRef, "none", pickup, 0, 0)
            /\ UNCHANGED <<pickup, acceptOk>>
       ELSE /\ resp' = MkResp("pickups/accepted",
                              AcceptedResultCode(store, result), sig, pid,
                              req.assignedVendorRef, store, pickup, 1, 1)
            /\ IF store = "ok" /\ result # NoRow
                 THEN /\ pickup' = result
                      /\ acceptOk' = Saturate(acceptOk)
                 ELSE UNCHANGED <<pickup, acceptOk>>

\* assignmentExpiresAt is never read by this route.
PickupsAcceptedCalls ==
  { c \in [req : AcceptRequests, store : StoreOutcomes] :
      /\ c.req.assignmentExpiresAt = NULL
      /\ PickupsAcceptedGate(c.req) # 0 => c.store = "ok" }

PickupsAccepted ==
  \E c \in PickupsAcceptedCalls : PickupsAcceptedHandler(c.req, c.store)

\* -------------------------------------------------- dispatcher (engine)
\* A detached dispatchPickup run: a no-op unless the pickup is REQUESTED;
\* otherwise one conditional write REQUESTED -> OFFERED for the next
\* candidate, or exhaustion (pickup stays REQUESTED, vendor fields clear).
\* failed: the run hit a store failure and its promise rejects.
DispatchRun(failed) ==
  /\ queue # "none"
  /\ queue' = "none"
  /\ dispatchPromise' =
       IF queue = "create"
         THEN (IF failed THEN "rejected" ELSE "fulfilled")
         ELSE dispatchPromise
  /\ IF ~failed /\ pickup.status = "REQUESTED" /\ cursor < Len(Candidates)
       THEN /\ cursor' = cursor + 1
            /\ pickup' = [pickup EXCEPT
                            !.status = "OFFERED",
                            !.assigned_vendor_ref = Candidates[cursor + 1],
                            !.assignment_expires_at = "T"]
       ELSE UNCHANGED <<cursor, pickup>>
  /\ resp' = NoResp
  /\ UNCHANGED <<createDispatches, createCode, acceptOk, rejectedBy,
                 expiredFor>>

dispatchPickup == \E failed \in BOOLEAN : DispatchRun(failed)

\* The condition of the clear shared by rejection and expiry: only the
\* vendor currently holding the offer is cleared.
ClearMatches(row, vendorRef) ==
  /\ row.status = "OFFERED"
  /\ row.assigned_vendor_ref = vendorRef

ClearAssignment(row) ==
  [row EXCEPT !.status = "REQUESTED", !.assigned_vendor_ref = NULL,
              !.assignment_expires_at = NULL]

\* handleVendorRejection(pickupId, vendorRef), also the engine's reaction to
\* a failed offer delivery; a stale rejection is ignored.
handleVendorRejection ==
  \E v \in Vendors :
    /\ pickup.status # "NONE"
    /\ IF ClearMatches(pickup, v)
         THEN /\ pickup' = ClearAssignment(pickup)
              /\ rejectedBy' = rejectedBy \cup {v}
              /\ queue' = "retry"
         ELSE UNCHANGED <<pickup, rejectedBy, queue>>
    /\ resp' = NoResp
    /\ UNCHANGED <<cursor, dispatchPromise, createDispatches, createCode,
                   acceptOk, expiredFor>>

\* The expiry check scheduled for vendor v's offer fires.
ExpiryCheck ==
  \E v \in Vendors :
    /\ pickup.status # "NONE"
    /\ IF ClearMatches(pickup, v)
         THEN /\ pickup' = ClearAssignment(pickup)
              /\ expiredFor' = expiredFor \cup {v}
              /\ queue' = "retry"
         ELSE UNCHANGED <<pickup, expiredFor, queue>>
    /\ resp' = NoResp
    /\ UNCHANGED <<cursor, dispatchPromise, createDispatches, createCode,
                   acceptOk, rejectedBy>>

\* ------------------------------------------------ external collaborators
CancelPickup ==
  /\ pickup.status \in {"REQUESTED", "OFFERED", "ACCEPTED"}
  /\ pickup' = [pickup EXCEPT !.status = "CANCELLED"]
  /\ resp' = NoResp
  /\ UNCHANGED <<cursor, queue, dispatchPromise, createDispatches,
                 createCode, acceptOk, rejectedBy, expiredFor>>

CompletePickup ==
  /\ pickup.status = "ACCEPTED"
  /\ pickup' = [pickup EXCEPT !.status = "COMPLETED"]
  /\ resp' = NoResp
  /\ UNCHANGED <<cursor, queue, dispatchPromise, createDispatches,
                 createCode, acceptOk, rejectedBy, expiredFor>>

\* ------------------------------------------------------ pickup creation
\* items: not an array / [] / non-empty array; address, timeSlot: absent,
\* whitespace only, text; latitude, longitude: absent, a number, a string.
ValidBody ==
  [present |-> TRUE, items |-> "list", address |-> "text",
   timeSlot |-> "text", latitude |-> NULL, longitude |-> NULL]

\* A missing body, and the valid body with one field varied at a time.
Bodies ==
  {[ValidBody EXCEPT !.present = FALSE]}
  \cup {[ValidBody EXCEPT !.items = x] : x \in {NULL, "empty", "list"}}
  \cup {[ValidBody EXCEPT !.address = x] : x \in {NULL, "blank"}}
  \cup {[ValidBody EXCEPT !.timeSlot = x] : x \in {NULL, "blank"}}
  \cup {[ValidBody EXCEPT !.latitude = x] : x \in {"number", "string"}}
  \cup {[ValidBody EXCEPT !.longitude = x] : x \in {"number", "string"}}

validatePickupBodyNoTimeSlot(body) ==
  IF ~body.present THEN "Request body is missing."
  ELSE IF body.items # "list" THEN "items is required"
  ELSE IF body.address = NULL \/ body.address = "blank"
    THEN "address is required."
  ELSE IF body.latitude # NULL /\ body.latitude # "number"
    THEN "latitude must be a number."
  ELSE IF body.longitude # NULL /\ body.longitude # "number"
    THEN "longitude must be a number."
  ELSE NULL

\* Returns the error message, or NULL when the body is valid.
validatePickupBody(body) ==
  IF ~body.present THEN "Request body is missing."
  ELSE IF body.items # "list" THEN "items is required"
  ELSE IF body.address = NULL \/ body.address = "blank"
    THEN "address is required."
  ELSE IF body.timeSlot = NULL \/ body.timeSlot = "blank"
    THEN "timeSlot is required."
  ELSE IF body.latitude # NULL /\ body.latitude # "number"
    THEN "latitude must be a number."
  ELSE IF body.longitude # NULL /\ body.longitude # "number"
    THEN "longitude must be a number."
  ELSE NULL

\* The row a successful insert leaves (status defaults to REQUESTED).
NewRow(withItems) ==
  [status |-> "REQUESTED", assigned_vendor_ref |-> NULL,
   assignment_expires_at |-> NULL, items |-> withItems]

\* A body a creation route must reject: absent, or a required field absent
\* or blank, or a coordinate that is not a number.
MalformedBody(body) ==
  \/ ~body.present
  \/ body.items \in {NULL, "empty"}
  \/ body.address \in {NULL, "blank"}
  \/ body.timeSlot \in {NULL, "blank"}
  \/ body.latitude = "string"
  \/ body.longitude = "string"

CreateResp(route, code, pid, store, sOps, eOps, body) ==
  [MkResp(route, code, FALSE, pid, NULL, store, pickup, sOps, eOps)
     EXCEPT !.malformed = MalformedBody(body)]

NoCreate == UNCHANGED <<pickup, queue, dispatchPromise, createDispatches,
                        createCode>>

\* The answer of the create_pickup call's failure paths (0: it succeeded).
RpcFailureCode(jwt, client, rpc) ==
  IF ~jwt THEN 401
  ELSE IF client = "throw" THEN 500
  ELSE IF rpc = "throw" THEN 500
  ELSE IF rpc = "missing_rpc" THEN 501
  ELSE IF rpc = "error" THEN 400
  ELSE 0

\* Requests and collaborator outcomes that differ in what the route reads:
\* nothing after the step that answers the call is reached.
CreateInputs ==
  { in \in [body : Bodies, jwt : BOOLEAN, client : {"ok", "throw"},
            rpc : {"ok", "error", "missing_rpc", "throw"}] :
      /\ validatePickupBody(in.body) # NULL => in.jwt
      /\ (validatePickupBody(in.body) # NULL \/ ~in.jwt) => in.client = "ok"
      /\ (validatePickupBody(in.body) # NULL \/ ~in.jwt
            \/ in.client = "throw") => in.rpc = "ok" }

DispatchTryUnguarded(dispatch) ==
  IF dispatch = "throws" THEN "propagates" ELSE "scheduled"

\* The inner try block around dispatcher.dispatchPickup(pickupId).catch(..):
\* a synchronous throw is caught and logged, otherwise the run is detached
\* with a rejection handler attached.
DispatchTry(dispatch) ==
  IF dispatch = "throws" THEN "caught" ELSE "scheduled"

\* POST /api/pickups as found in src/routes/vendor.js
CreatePickup ==
  \E in \in CreateInputs, dispatch \in {"promise", "throws"} :
    LET body == in.body
        jwt == in.jwt
        client == in.client
        rpc == in.rpc
        fail == RpcFailureCode(jwt, client, rpc)
        issued == IF jwt /\ client = "ok" THEN 1 ELSE 0
        code == IF DispatchTry(dispatch) = "propagates" THEN 500 ELSE 201
    IN
    /\ UNCHANGED <<cursor, acceptOk, rejectedBy, expiredFor>>
    /\ IF validatePickupBody(body) # NULL
         THEN /\ dispatch = "promise"
              /\ resp' = CreateResp("pickups", 400, NULL, "none", 0, 0, body)
              /\ NoCreate
       ELSE IF fail # 0
         THEN /\ dispatch = "promise"
              /\ resp' = CreateResp("pickups", fail, NULL, rpc, issued, 0, body)
              /\ NoCreate
       ELSE /\ pickup.status = "NONE"
            /\ pickup' = NewRow(TRUE)
            /\ createDispatches' = createDispatches + 1
            /\ queue' = IF dispatch = "promise" THEN "create" ELSE "none"
            /\ dispatchPromise' =
                 IF dispatch = "promise" THEN "pending" ELSE "threw"
            /\ createCode' = code
            /\ resp' = CreateResp("pickups", code, ThePickup, rpc, 1, 1, body)

\* POST /api/pickups as found in routes/pickups.js (src/unnamed/part_001)
CreatePickupLegacy ==
  \E in \in CreateInputs :
    LET body == in.body
        jwt == in.jwt
        client == in.client
        rpc == in.rpc
        fail == RpcFailureCode(jwt, client, rpc)
        issued == IF jwt /\ client = "ok" THEN 1 ELSE 0
    IN
    /\ UNCHANGED <<cursor, acceptOk, rejectedBy, expiredFor>>
    /\ IF validatePickupBody(body) # NULL
         THEN /\ resp' = CreateResp("pickups/legacy", 400, NULL, "none", 0, 0, body)
              /\ NoCreate
       ELSE IF fail # 0
         THEN /\ resp' = CreateResp("pickups/legacy", fail, NULL, rpc, issued, 0, body)
              /\ NoCreate
       ELSE /\ pickup.status = "NONE"
            /\ pickup' = NewRow(TRUE)
            /\ createCode' = 201
            /\ resp' = CreateResp("pickups/legacy", 201, ThePickup, rpc, 1, 0, body)
            /\ UNCHANGED <<queue, dispatchPromise, createDispatches>>

\* The answer of /dev's failure paths before the pickup insert (0: none).
DevFailureCode(allowed, bodyError, client, customer, profile, pickupIns) ==
  IF ~allowed THEN 403
  ELSE IF bodyError # NULL THEN 400
  ELSE IF client = "throw" THEN 500
  ELSE IF customer = "throw" \/ profile = "throw" THEN 400
  ELSE IF pickupIns = "error" THEN 400
  ELSE IF pickupIns = "throw" THEN 500
  ELSE 0

\* Requests and collaborator outcomes that differ in what /dev reads.
DevInputs ==
  { in \in [allowed : BOOLEAN, body : Bodies, client : {"ok", "throw"},
            customer : {"ok", "throw"}, profile : {"ok", "throw"},
            pickupIns : StoreOutcomes, itemsIns : StoreOutcomes] :
      LET e1 == ~in.allowed
          e2 == e1 \/ validatePickupBody(in.body) # NULL
          e3 == e2 \/ in.client = "throw"
          e4 == e3 \/ in.customer = "throw"
          e5 == e4 \/ in.profile = "throw"
          e6 == e5 \/ in.pickupIns # "ok"
      IN /\ e1 => in.body = ValidBody
         /\ e2 => in.client = "ok"
         /\ e3 => in.customer = "ok"
         /\ e4 => in.profile = "ok"
         /\ e5 => in.pickupIns = "ok"
         /\ e6 => in.itemsIns = "ok" }

\* POST /api/pickups/dev (src/unnamed/part_001)
CreatePickupDev ==
  \E in \in DevInputs :
    LET allowed == in.allowed
        body == in.body
        client == in.client
        customer == in.customer
        profile == in.profile
        pickupIns == in.pickupIns
        itemsIns == in.itemsIns
        fail == DevFailureCode(allowed, validatePickupBody(body), client,
                               customer, profile, pickupIns)
        code == IF itemsIns = "ok" THEN 201
                ELSE IF itemsIns = "throw" THEN 500 ELSE 400
    IN
    /\ UNCHANGED <<cursor, acceptOk, rejectedBy, expiredFor>>
    /\ IF fail # 0
         THEN /\ resp' = CreateResp("pickups/dev", fail, NULL, "none", 0, 0, body)
              /\ NoCreate
         ELSE /\ pickup.status = "NONE"
              /\ pickup' = NewRow(itemsIns = "ok")
              /\ createCode' = code
              /\ resp' = CreateResp("pickups/dev", code, ThePickup, itemsIns,
                                    2, 0, body)
              /\ UNCHANGED <<queue, dispatchPromise, createDispatches>>

Next ==
  \/ CreatePickup
  \/ CreatePickupLegacy
  \/ CreatePickupDev
  \/ VendorAccept
  \/ PickupsAccepted
  \/ dispatchPickup
  \/ handleVendorRejection
  \/ ExpiryCheck
  \/ CancelPickup
  \/ CompletePickup

Spec == Init /\ [][Next]_vars

\* ------------------------------------------------------------ properties
AcceptRoutes == {"vendor/accept", "pickups/accepted"}
CreateRoutes == {"pickups", "pickups/legacy", "pickups/dev"}
IsAccept == resp.route \in AcceptRoutes

\* The call passed both early returns and the store ran its update.
Executed ==
  /\ IsAccept
  /\ resp.sigOk
  /\ resp.pickupId = ThePickup
  /\ resp.store = "ok"

\* Successful accepts that preceded the call recorded in resp.
PriorOk == acceptOk - (IF IsAccept /\ resp.success THEN 1 ELSE 0)

Terminal == {"CANCELLED", "COMPLETED", "ACCEPTED"}

\* C1: at most one accept call on the pickup ever returns success; an
\* accept made after the first successful one is not answered success, and
\* is answered 409 whenever the store ran its conditional update.
AtMostOneAcceptSucceeds ==
  /\ acceptOk <= 1
  /\ (IsAccept /\ resp.pickupId = ThePickup /\ PriorOk >= 1) =>
       /\ ~resp.success
       /\ Executed => resp.code = 409

SecondAcceptConflicts ==
  /\ Executed
  /\ acceptOk = 1
  /\ PriorOk = 1
  /\ resp.code = 409

\* C2: an accept succeeds only if the row's assignedVendorRef is the vendor
\* reference supplied or is unset; an accept carrying V on a pickup assigned
\* to a different vendor W does not succeed and leaves the row as it was.
AcceptRespectsAssignment ==
  (IsAccept /\ resp.pickupId = ThePickup) =>
    /\ resp.success =>
         resp.pre.assigned_vendor_ref \in {resp.vendorRef, NULL}
    /\ (resp.pre.assigned_vendor_ref # NULL
          /\ resp.vendorRef # resp.pre.assigned_vendor_ref) =>
         (~resp.success /\ pickup = resp.pre)

OtherVendorAcceptRefused ==
  /\ Executed
  /\ resp.route = "vendor/accept"
  /\ resp.pre.status = "OFFERED"
  /\ resp.vendorRef \in Vendors
  /\ resp.vendorRef # resp.pre.assigned_vendor_ref
  /\ resp.code = 409

\* C3: on both accept endpoints a failed signature verification answers
\* 401, whether or not pickupId is present, issues no store update, invokes
\* no dispatcher operation and leaves the pickup row as it was.
SignatureCheckedFirst ==
  (IsAccept /\ ~resp.sigOk) =>
    /\ resp.code = 401
    /\ resp.storeOps = 0
    /\ resp.engineOps = 0
    /\ pickup = resp.pre

UnsignedAcceptWithoutPickupId ==
  /\ resp.route = "vendor/accept"
  /\ ~resp.sigOk
  /\ resp.pickupId = NULL
  /\ resp.code = 401
  /\ pickup.status = "REQUESTED"

\* C4: an accept on a pickup whose status is CANCELLED, COMPLETED or
\* ACCEPTED is not answered success and leaves status, assignedVendorRef
\* and assignmentExpiresAt as they were; it is answered 409 whenever the
\* store ran its conditional update.
TerminalAcceptIsConflict ==
  (IsAccept /\ resp.pickupId = ThePickup /\ resp.pre.status \in Terminal) =>
    /\ ~resp.success
    /\ pickup = resp.pre
    /\ Executed => resp.code = 409

AcceptOnCancelled ==
  /\ Executed
  /\ resp.route = "vendor/accept"
  /\ resp.pre.status = "CANCELLED"
  /\ pickup.status = "CANCELLED"
  /\ resp.code = 409

\* C5: an accept carrying a vendor whose offer on the pickup was cleared by
\* expiry is not answered success (the pickup is not ACCEPTED by that call).
LateAcceptLoses ==
  (IsAccept /\ resp.pickupId = ThePickup /\ resp.vendorRef \in expiredFor) =>
    ~resp.success

\* C6: outside ACCEPTED and terminal states assignedVendorRef and
\* assignmentExpiresAt are both null or both set; an ACCEPTED pickup has a
\* non-null assignedVendorRef, the vendor whose accept succeeded.
AssignmentFieldsInvariant ==
  /\ pickup.status \in {"REQUESTED", "OFFERED"} =>
       (pickup.assigned_vendor_ref = NULL
          <=> pickup.assignment_expires_at = NULL)
  /\ pickup.status = "ACCEPTED" => pickup.assigned_vendor_ref # NULL
  /\ (IsAccept /\ resp.success) =>
       pickup.assigned_vendor_ref = resp.vendorRef

\* C7: with candidates [A, B, C], once A declined and B's offer expired, an
\* accept by C while C holds the offer leaves the pickup ACCEPTED with
\* assignedVendorRef = C.
ThirdCandidateAcceptWins ==
  (/\ Executed
   /\ Candidates[1] \in rejectedBy
   /\ Candidates[2] \in expiredFor
   /\ resp.pre.status = "OFFERED"
   /\ resp.pre.assigned_vendor_ref = Candidates[3]
   /\ resp.vendorRef = Candidates[3]) =>
    /\ pickup.status = "ACCEPTED"
    /\ pickup.assigned_vendor_ref = Candidates[3]

\* C8: a pickup persisted with its items by any creation route has had
\* dispatchPickup invoked exactly once by that route, and a creation call
\* that fails invokes no dispatch.
DispatchedExactlyOnce ==
  /\ (pickup.status # "NONE" /\ pickup.items) => createDispatches = 1
  /\ (resp.route \in CreateRoutes /\ ~resp.success) => resp.engineOps = 0
  /\ pickup.status = "NONE" => createDispatches = 0

\* C9: whenever the creation route of src/routes/vendor.js persisted the
\* pickup, it answered 201, whatever became of the dispatch it started:
\* still pending, thrown synchronously, fulfilled or rejected.
CreationAnswerIgnoresDispatch ==
  /\ dispatchPromise \in {"pending", "threw", "fulfilled", "rejected"} =>
       createCode = 201
  /\ (resp.route = "pickups" /\ resp.pickupId = ThePickup) => resp.code = 201

CreatedThoughDispatchThrew ==
  /\ dispatchPromise = "threw"
  /\ pickup.status = "REQUESTED"
  /\ createCode = 201

\* C10: a store failure during a vendor accept is answered 500, and the
\* update is issued once.
StoreFailureIsServerError ==
  (IsAccept /\ resp.store \in {"error", "throw"}) =>
    /\ resp.code = 500
    /\ resp.storeOps = 1

\* C11: a correctly signed accept without pickupId, and a creation request
\* whose body is malformed and reaches validation, are answered 400, issue
\* no store call, invoke no dispatcher operation and leave the pickup row
\* as it was.
MalformedRequestHasNoEffect ==
  /\ (IsAccept /\ resp.sigOk /\ resp.malformed) =>
       /\ resp.code = 400
       /\ resp.storeOps = 0
       /\ resp.engineOps = 0
       /\ pickup = resp.pre
  /\ (resp.route \in CreateRoutes /\ resp.malformed) =>
       /\ resp.code = 400
       /\ resp.storeOps = 0
       /\ resp.engineOps = 0
       /\ pickup = resp.pre

MalformedCreateRejected ==
  /\ resp.route = "pickups"
  /\ resp.malformed
  /\ resp.code = 400
  /\ pickup.status = "NONE"
  /\ createDispatches = 0
====
